---- MODULE Spec2Model ----
(***************************************************************************)
(* Model of the strategy-backtesting engine of StockAdvisor:               *)
(*   src/services/backtester.py  (Backtester: backtest, _simulate_trading,  *)
(*                                optimize_strategy, compare_strategies,   *)
(*                                buy_and_hold; SimpleMovingAverageCrossover)*)
(*   src/utils/data_models.py    (Trade, BacktestResults)                  *)
(*                                                                         *)
(* Specifications:                                                         *)
(*   Spec          one call of _simulate_trading on a series of >= 2 bars  *)
(*   SpecBacktest  one call of backtest: download, checks, signals,        *)
(*                 simulation, construction of the results                 *)
(*   SpecRerun     SpecBacktest followed by a second, identical call       *)
(*   SpecOptimize  one call of optimize_strategy                           *)
(*                                                                         *)
(* Numbers.  Python floats are modelled exactly.  Money (prices, cash,     *)
(* costs, equity) is an integer number of ticks; every price and the       *)
(* initial capital are whole multiples of RateDen ticks, so that the       *)
(* product "amount * self.commission" (commission = RateNum / RateDen)     *)
(* is an exact integer.  A quotient such as profit_loss_pct is kept as a   *)
(* fraction <<numerator, denominator>>.  Dates are day numbers.            *)
(* Python's 0-based positions are kept: Iloc(s, i) is s.iloc[i].           *)
(***************************************************************************)
EXTENDS Integers, Sequences, FiniteSets, TLC

\* ---------------------------------------------------------------- bounds
MaxBars == 4          \* longest price series
MaxPrice == 2         \* close prices are RateDen * (1..MaxPrice) ticks
MaxCapital == 3       \* initial capital is RateDen * (1..MaxCapital) ticks
DateSlack == 1        \* the dates of n bars are drawn from 1..n+DateSlack
MaxNow == 8           \* latest wall-clock day returned by datetime.now()
SharesPerTrade == 1   \* shares_per_trade of the run
RateNum == 1          \* self.commission = RateNum / RateDen
RateDen == 10
MaxPeriod == 3        \* SMA periods are drawn from 1..MaxPeriod
MaxRangeDay == 2      \* start_date and end_date are drawn from 1..MaxRangeDay
MaxFetchedBars == 3   \* longest series the data layer returns to backtest
MaxParams == 2        \* a parameter grid has 0..MaxParams parameters
MaxValues == 2        \* a parameter has 0..MaxValues candidate values
MaxMetric == 1        \* metric values are integers of magnitude <= MaxMetric

\* ------------------------------------------------------- values and types
BUY == 1
SELL == 0 - 1
HOLD == 0
SignalValues == {BUY, SELL, HOLD}

None == 0 - 1         \* the value of an Optional field that is not set
LONG == "long"
SHORT == "short"

Prices == {RateDen * p : p \in 1..MaxPrice}
Capitals == {RateDen * c : c \in 1..MaxCapital}
NowDays == (MaxNow - 1)..MaxNow

\* s.iloc[i] for a 0-based position i, and s.iloc[-1]
Iloc(s, i) == s[i + 1]
IlocLast(s) == s[Len(s)]

\* strictly increasing sequences of n dates
DateIndexes(n) ==
    {d \in [1..n -> 1..(n + DateSlack)] : \A k \in 1..(n - 1) : d[k] < d[k + 1]}

\* amount * self.commission
TimesCommission(amount) == (amount * RateNum) \div RateDen

\* float fractions
Frac(num, den) == <<num, den>>
FracZero == Frac(0, 1)
FracEq(a, b) == a[1] * b[2] = b[1] * a[2]

RECURSIVE SumProfitLoss(_)
SumProfitLoss(ts) ==
    IF ts = <<>> THEN 0 ELSE ts[1].profit_loss + SumProfitLoss(Tail(ts))

\* ------------------------------------------------------ exact float values
RECURSIVE GCD(_, _)
GCD(a, b) == IF b = 0 THEN a ELSE GCD(b, a % b)

Abs(x) == IF x < 0 THEN 0 - x ELSE x

\* a fraction in lowest terms with a positive denominator
Norm(f) ==
    LET g == GCD(Abs(f[1]), Abs(f[2]))
        sgn == IF f[2] < 0 THEN 0 - 1 ELSE 1
    IN  IF g = 0 THEN f ELSE Frac(sgn * (f[1] \div g), sgn * (f[2] \div g))

FracAdd(a, b) == Norm(Frac(a[1] * b[2] + b[1] * a[2], a[2] * b[2]))
FracLess(a, b) == a[1] * b[2] < b[1] * a[2]
FracMin(a, b) == IF FracLess(b, a) THEN b ELSE a

RECURSIVE FracSum(_)
FracSum(fs) == IF fs = <<>> THEN FracZero ELSE FracAdd(fs[1], FracSum(Tail(fs)))

\* np.mean of a non-empty sequence of fractions
FracMean(fs) ==
    LET t == FracSum(fs) IN Norm(Frac(t[1], t[2] * Len(fs)))

\* np.std(xs) > 0: the values are not all equal
StdPositive(fs) == \E a, b \in 1..Len(fs) : ~FracEq(fs[a], fs[b])

\* ------------------------------------------------------------- strategies
\* close.rolling(window).mean() at 1-based bar k, as the pair <<sum, window>>;
\* the value is NaN while k < window
RECURSIVE RollingSum(_, _, _)
RollingSum(close, window, k) ==
    IF window = 0 THEN 0 ELSE close[k] + RollingSum(close, window - 1, k - 1)

\* mutant: the two comparisons are swapped
SMASignalsSwapped(close, fast_period, slow_period) ==
    [k \in 1..Len(close) |->
        IF k < fast_period \/ k < slow_period
        THEN HOLD
        ELSE LET fast_sum == RollingSum(close, fast_period, k)
                 slow_sum == RollingSum(close, slow_period, k)
             IN  IF fast_sum * slow_period < slow_sum * fast_period THEN BUY
                 ELSE IF fast_sum * slow_period > slow_sum * fast_period THEN SELL
                 ELSE HOLD]

\* mutant: equal averages count as a buy crossover
SMASignalsOnTies(close, fast_period, slow_period) ==
    [k \in 1..Len(close) |->
        IF k < fast_period \/ k < slow_period
        THEN HOLD
        ELSE LET fast_sum == RollingSum(close, fast_period, k)
                 slow_sum == RollingSum(close, slow_period, k)
             IN  IF fast_sum * slow_period < slow_sum * fast_period THEN SELL
                 ELSE BUY]

\* SimpleMovingAverageCrossover.generate_signals: a comparison with NaN is
\* False, so the bars before both windows are full keep the initial 0
SMASignals(close, fast_period, slow_period) ==
    [k \in 1..Len(close) |->
        IF k < fast_period \/ k < slow_period
        THEN HOLD
        ELSE LET fast_sum == RollingSum(close, fast_period, k)
                 slow_sum == RollingSum(close, slow_period, k)
             IN  IF fast_sum * slow_period < slow_sum * fast_period THEN SELL
                 ELSE IF fast_sum * slow_period > slow_sum * fast_period THEN BUY
                 ELSE HOLD]

\* f"SMA_{fast_period}_{slow_period}", kept as the tuple of its parts
StrategyName(st) == <<st.family, st.fast_period, st.slow_period>>

\* ------------------------------------------------------- BacktestResults
\* the metrics that are quotients of irrational quantities are kept as the
\* quantities they are computed from; ZeroRatio is the float 0.0

\* _calculate_returns: final value, total and annualized return
FinalValue(curve, capital) == IF curve # <<>> THEN curve[Len(curve)] ELSE capital

TotalReturnPct(curve, capital) ==
    IF capital > 0
    THEN Norm(Frac((FinalValue(curve, capital) - capital) * 100, capital))
    ELSE FracZero

\* ((final_value / initial_capital) ** (1 / years) - 1) * 100 with
\* years = max(days / 365.25, 0.01): kept as the growth factor and the days
AnnualReturnPct(curve, capital, start, end) ==
    [growth |-> Norm(Frac(FinalValue(curve, capital), capital)), days |-> end - start]

\* np.maximum.accumulate(equity)[k]
RECURSIVE RunningMax(_, _)
RunningMax(curve, k) ==
    IF k = 1 THEN curve[1]
    ELSE LET m == RunningMax(curve, k - 1) IN IF curve[k] > m THEN curve[k] ELSE m

\* drawdown[k] * 100
DrawdownPct(curve, k) ==
    Norm(Frac((curve[k] - RunningMax(curve, k)) * 100, RunningMax(curve, k)))

RECURSIVE MinDrawdownPct(_, _)
MinDrawdownPct(curve, k) ==
    IF k = 1 THEN DrawdownPct(curve, 1)
    ELSE FracMin(MinDrawdownPct(curve, k - 1), DrawdownPct(curve, k))

\* _calculate_risk_metrics: max_drawdown_pct
MaxDrawdownPct(curve) ==
    IF curve = <<>> THEN FracZero ELSE MinDrawdownPct(curve, Len(curve))

\* np.diff(equity) / equity[:-1]
Returns(curve) ==
    [k \in 1..(Len(curve) - 1) |-> Norm(Frac(curve[k + 1] - curve[k], curve[k]))]

\* np.minimum(returns, 0)
Downside(rs) == [k \in 1..Len(rs) |-> IF rs[k][1] < 0 THEN rs[k] ELSE FracZero]

\* mean / std(sample) * sqrt(252), or 0.0
ZeroRatio == [mean |-> FracZero, sample |-> <<>>]
RatioOf(mean, sample) ==
    IF mean[1] = 0 THEN ZeroRatio ELSE [mean |-> mean, sample |-> sample]

\* _calculate_ratios: sharpe_ratio
SharpeRatio(curve) ==
    IF Len(curve) < 2 THEN ZeroRatio
    ELSE LET rs == Returns(curve)
         IN  IF Len(rs) > 1
             THEN IF StdPositive(rs) THEN RatioOf(FracMean(rs), rs) ELSE ZeroRatio
             ELSE ZeroRatio

\* _calculate_ratios: sortino_ratio
SortinoRatio(curve) ==
    IF Len(curve) < 2 THEN ZeroRatio
    ELSE LET rs == Returns(curve)
             down == Downside(rs)
         IN  IF Len(down) > 1
             THEN IF StdPositive(down) THEN RatioOf(FracMean(rs), down) ELSE ZeroRatio
             ELSE ZeroRatio

\* _calculate_ratios: calmar_ratio = annual_return_pct / abs(max_drawdown_pct),
\* or 0.0
ZeroCalmar == [growth |-> Frac(1, 1), days |-> 0, drawdown |-> FracZero]
CalmarRatio(curve, capital, start, end) ==
    IF Len(curve) < 2 THEN ZeroCalmar
    ELSE LET mdd == MaxDrawdownPct(curve)
             annual == AnnualReturnPct(curve, capital, start, end)
         IN  IF mdd[1] < 0
             THEN IF annual.growth = Frac(1, 1) THEN ZeroCalmar
                  ELSE [growth |-> annual.growth, days |-> annual.days,
                        drawdown |-> mdd]
             ELSE ZeroCalmar

\* np.argmin(drawdown): the first bar (1-based) of the deepest drawdown
ArgMinDrawdown(curve) ==
    CHOOSE t \in 1..Len(curve) :
        /\ FracEq(DrawdownPct(curve, t), MinDrawdownPct(curve, Len(curve)))
        /\ \A b \in 1..(t - 1) :
              ~FracEq(DrawdownPct(curve, b), MinDrawdownPct(curve, Len(curve)))

\* _calculate_risk_metrics: recovery_time, the distance from max_dd_idx to the
\* first later bar with equity >= running_max[max_dd_idx], 0 if there is none
RecoveryTime(curve) ==
    IF curve = <<>> THEN 0
    ELSE LET t == ArgMinDrawdown(curve)
             later == {b \in (t + 1)..Len(curve) : curve[b] >= RunningMax(curve, t)}
         IN  IF later = {} THEN 0
             ELSE (CHOOSE b \in later : \A c \in later : b <= c) - t

\* _calculate_win_metrics works on the profit_loss of the closed trades
IsClosed(t) == t.exit_price # None
ClosedProfitLoss(trade_list) ==
    LET closed == SelectSeq(trade_list, IsClosed)
    IN  [k \in 1..Len(closed) |-> Frac(closed[k].profit_loss, 1)]

IsWin(pl) == pl[1] > 0
IsLoss(pl) == pl[1] < 0
FracAbs(f) == Frac(Abs(f[1]), f[2])
WinAmounts(pls) == SelectSeq(pls, IsWin)
LossAmounts(pls) ==
    LET losses == SelectSeq(pls, IsLoss)
    IN  [k \in 1..Len(losses) |-> FracAbs(losses[k])]

\* len(winning_trades) / len(closed_trades) * 100, or 0.0
WinRatePct(pls) ==
    IF pls = <<>> THEN FracZero
    ELSE Norm(Frac(Len(WinAmounts(pls)) * 100, Len(pls)))

\* np.mean(win_amounts) and np.mean(loss_amounts), or 0.0
AvgWin(pls) ==
    IF WinAmounts(pls) = <<>> THEN FracZero ELSE FracMean(WinAmounts(pls))
AvgLoss(pls) ==
    IF LossAmounts(pls) = <<>> THEN FracZero ELSE FracMean(LossAmounts(pls))

\* total_wins / total_losses, 1.0 with wins and no losses, else 0.0
ProfitFactor(pls) ==
    LET total_wins == FracSum(WinAmounts(pls))
        total_losses == FracSum(LossAmounts(pls))
    IN  IF pls = <<>> THEN FracZero
        ELSE IF total_losses[1] > 0
        THEN Norm(Frac(total_wins[1] * total_losses[2],
                       total_wins[2] * total_losses[1]))
        ELSE IF total_wins[1] > 0 THEN Frac(1, 1) ELSE FracZero

\* the fields __post_init__ computes, from the profit_loss values pls of the
\* closed trades and the equity curve
ResultsOf(strategy_name, start, end, capital, trade_list, curve, dates, pls) ==
    [strategy_name |-> strategy_name,
     start_date |-> start, end_date |-> end,
     initial_capital |-> capital,
     trades |-> trade_list, equity_curve |-> curve, dates |-> dates,
     total_return_pct |-> TotalReturnPct(curve, capital),
     annual_return_pct |-> AnnualReturnPct(curve, capital, start, end),
     win_rate_pct |-> WinRatePct(pls),
     avg_win |-> AvgWin(pls),
     avg_loss |-> AvgLoss(pls),
     profit_factor |-> ProfitFactor(pls),
     max_drawdown_pct |-> MaxDrawdownPct(curve),
     recovery_time |-> RecoveryTime(curve),
     sharpe_ratio |-> SharpeRatio(curve),
     sortino_ratio |-> SortinoRatio(curve),
     calmar_ratio |-> CalmarRatio(curve, capital, start, end)]

\* BacktestResults(...) followed by the dataclass __post_init__
BacktestResults(strategy_name, start, end, capital, trade_list, curve, dates) ==
    ResultsOf(strategy_name, start, end, capital, trade_list, curve, dates,
              ClosedProfitLoss(trade_list))

\* ------------------------------------------------------------------ Trade
\* Trade(...) followed by the dataclass __post_init__; now is the value of
\* datetime.now() read when the trade is constructed open.
Trade(entry_date, exit_date, position_type, entry_price, exit_price, shares, now) ==
    LET entry_cost == entry_price * shares
        exit_cost == exit_price * shares
        profit_loss == IF position_type = LONG THEN exit_cost - entry_cost
                                               ELSE entry_cost - exit_cost
    IN  IF exit_price # None
        THEN [entry_date |-> entry_date, exit_date |-> exit_date,
              symbol |-> "UNKNOWN", position_type |-> position_type,
              entry_price |-> entry_price, exit_price |-> exit_price,
              shares |-> shares,
              entry_cost |-> entry_cost, exit_cost |-> exit_cost,
              profit_loss |-> profit_loss,
              profit_loss_pct |-> IF entry_cost > 0
                                  THEN Frac(profit_loss * 100, entry_cost)
                                  ELSE FracZero,
              duration_days |-> exit_date - entry_date]
        ELSE [entry_date |-> entry_date, exit_date |-> exit_date,
              symbol |-> "UNKNOWN", position_type |-> position_type,
              entry_price |-> entry_price, exit_price |-> exit_price,
              shares |-> shares,
              entry_cost |-> entry_cost, exit_cost |-> 0,
              profit_loss |-> 0,
              profit_loss_pct |-> FracZero,
              duration_days |-> now - entry_date]

\* ------------------------------------------------------------------ state
VARIABLES
    data_close,       \* data['Close'], the close price of each bar
    data_index,       \* data.index, the date of each bar
    signals,          \* the signal of each bar
    initial_capital,  \* self.initial_capital
    trades,           \* the local list trades
    equity_curve,     \* the local list equity_curve
    cash,             \* the local cash
    position,         \* the open position: <<>> for None, else <<trade>>
    i,                \* the loop variable (0-based bar position)
    pc,               \* "loop" while in the for loop or at its exit, then "done"
    start_date,       \* backtest: the start_date argument
    end_date,         \* backtest: the end_date argument
    has_close,        \* backtest: 'Close' in data.columns
    strategy,         \* backtest: the strategy argument
    results,          \* backtest: the returned BacktestResults, <<>> before
    error,            \* backtest: the exception raised, NoError if none
    run,              \* which of two identical backtest calls is running
    first_run,        \* the results returned by the first call, <<>> before
    param_values,     \* optimize_strategy: list(param_grid.values())
    metric,           \* optimize_strategy: the metric argument
    combo_k,          \* optimize_strategy: position in itertools.product
    best_metric,      \* optimize_strategy: best_metric
    best_params,      \* optimize_strategy: best_params, <<>> for None
    best_results,     \* optimize_strategy: best_results, <<>> for None
    strategies,       \* compare_strategies: the strategies argument
    comparison,       \* compare_strategies: the dict comparison
    cmp_k,            \* compare_strategies: position in strategies
    evaluated,        \* what each self.backtest call so far returned or raised
    printed,          \* the lines printed so far
    cancel_requested  \* the caller has asked the running search to stop

bt_vars == <<start_date, end_date, has_close, strategy, results, error>>
rerun_vars == <<run, first_run>>
opt_vars == <<param_values, metric, combo_k, best_metric, best_params,
              best_results>>
cmp_vars == <<strategies, comparison, cmp_k>>
call_vars == <<evaluated, printed>>
orch_vars == <<opt_vars, cmp_vars, call_vars, cancel_requested>>

vars == <<data_close, data_index, signals, initial_capital,
          trades, equity_curve, cash, position, i, pc, bt_vars,
          rerun_vars, orch_vars>>

inputs == <<data_close, data_index, signals, initial_capital>>

NoPosition == <<>>
LenData == Len(data_close)

NoResults == <<>>
NoError == "none"
NoStrategy == [family |-> "none", fast_period |-> 0, slow_period |-> 0]

\* the variables of backtest while only _simulate_trading runs
BtIdle ==
    /\ start_date = 0
    /\ end_date = 0
    /\ has_close = TRUE
    /\ strategy = NoStrategy
    /\ results = NoResults
    /\ error = NoError

\* the variables of the second call while a single call runs
RerunIdle ==
    /\ run = 1
    /\ first_run = NoResults

\* the variables of optimize_strategy and compare_strategies while neither runs
OrchIdle ==
    /\ param_values = <<>>
    /\ metric = "none"
    /\ combo_k = 0
    /\ best_metric = 0
    /\ best_params = <<>>
    /\ best_results = <<>>
    /\ strategies = <<>>
    /\ comparison = <<>>
    /\ cmp_k = 0
    /\ evaluated = <<>>
    /\ printed = <<>>
    /\ cancel_requested = FALSE

\* ------------------------------------------------ pieces of the loop body
\* for i in range(1, len(data))
FirstLoopBar == 1

\* mutant: the curve starts empty, so bar 0 is not recorded
InitialEquityCurveEmpty(capital) == <<>>

\* equity_curve = [self.initial_capital]
InitialEquityCurve(capital) == <<capital>>

ExitCommission(pos) == TimesCommission(pos.entry_cost)

EntryCommission(entry_price, shares) == TimesCommission(entry_price * shares)

\* mutant: the cash test is dropped
SufficientCashUnchecked(c, entry_price, shares) == TRUE

\* if cash >= (entry_price * shares_per_trade + commission_cost)
SufficientCash(c, entry_price, shares) ==
    c >= entry_price * shares + EntryCommission(entry_price, shares)

\* mutant: the sell branch records the price and forgets the date
ClosedOnSellNoDate(pos, current_date, close_price) ==
    [pos EXCEPT !.exit_price = close_price,
                !.profit_loss = pos.profit_loss - ExitCommission(pos)]

\* the position object after the sell branch has assigned its exit fields
ClosedOnSell(pos, current_date, close_price) ==
    [pos EXCEPT !.exit_date = current_date,
                !.exit_price = close_price,
                !.profit_loss = pos.profit_loss - ExitCommission(pos)]

CashAfterSell(c, pos, close_price) ==
    IF pos.position_type = LONG
    THEN c + (close_price * pos.shares - ExitCommission(pos))
    ELSE c - (close_price * pos.shares + ExitCommission(pos))

\* mutant: the entry commission is not deducted
CashAfterBuyNoCommission(c, entry_price, shares) == c - entry_price * shares

\* cash -= entry_price * shares_per_trade + commission_cost
CashAfterBuy(c, entry_price, shares) ==
    c - (entry_price * shares + EntryCommission(entry_price, shares))

\* mutant: the open position is not marked to market
CurrentEquityCashOnly(c, pos, close_price) == c

\* current_equity = cash, plus the position's value at this bar's close
CurrentEquity(c, pos, close_price) ==
    IF pos = NoPosition
    THEN c
    ELSE IF pos[1].position_type = LONG
         THEN c + close_price * pos[1].shares
         ELSE c + (pos[1].entry_cost - close_price * pos[1].shares)

\* mutant: the end-of-series close sets the price and forgets the date
ClosedAtEndNoDate(pos, last_date, last_price) ==
    [pos EXCEPT !.exit_price = last_price]

\* the position object after the end-of-series close has assigned its fields
ClosedAtEnd(pos, last_date, last_price) ==
    [pos EXCEPT !.exit_date = last_date, !.exit_price = last_price]

\* ------------------------------------------------------------------- Init
Init ==
    /\ \E n \in 2..MaxBars :
          /\ data_close \in [1..n -> Prices]
          /\ data_index \in DateIndexes(n)
          /\ signals \in [1..n -> SignalValues]
    /\ initial_capital \in Capitals
    /\ trades = <<>>
    /\ equity_curve = InitialEquityCurve(initial_capital)
    /\ cash = initial_capital
    /\ position = NoPosition
    /\ i = FirstLoopBar
    /\ pc = "loop"
    /\ BtIdle
    /\ RerunIdle
    /\ OrchIdle

\* ---------------------------------------------------------------- actions
InLoop == pc = "loop" /\ i < LenData

\* if position is not None and signal == -1
SellBar ==
    /\ InLoop
    /\ position # NoPosition /\ Iloc(signals, i) = SELL
    /\ LET closed == ClosedOnSell(position[1], Iloc(data_index, i), Iloc(data_close, i))
           cash2 == CashAfterSell(cash, position[1], Iloc(data_close, i))
       IN  /\ trades' = Append(trades, closed)
           /\ cash' = cash2
           /\ position' = NoPosition
           /\ equity_curve' = Append(equity_curve,
                                 CurrentEquity(cash2, NoPosition, Iloc(data_close, i)))
    /\ i' = i + 1
    /\ UNCHANGED <<inputs, pc, bt_vars, rerun_vars, orch_vars>>

\* elif position is None and signal == 1, with sufficient cash
BuyBar ==
    /\ InLoop
    /\ ~(position # NoPosition /\ Iloc(signals, i) = SELL)
    /\ position = NoPosition /\ Iloc(signals, i) = BUY
    /\ SufficientCash(cash, Iloc(data_close, i), SharesPerTrade)
    /\ \E now \in NowDays :
          LET opened == Trade(Iloc(data_index, i), None, LONG,
                              Iloc(data_close, i), None, SharesPerTrade, now)
              cash2 == CashAfterBuy(cash, Iloc(data_close, i), SharesPerTrade)
          IN  /\ position' = <<opened>>
              /\ cash' = cash2
              /\ equity_curve' = Append(equity_curve,
                                    CurrentEquity(cash2, <<opened>>, Iloc(data_close, i)))
    /\ i' = i + 1
    /\ UNCHANGED <<inputs, trades, pc, bt_vars, rerun_vars, orch_vars>>

\* neither branch changes anything; the bar's equity is still recorded
IdleBar ==
    /\ InLoop
    /\ ~(position # NoPosition /\ Iloc(signals, i) = SELL)
    /\ ~(/\ position = NoPosition /\ Iloc(signals, i) = BUY
         /\ SufficientCash(cash, Iloc(data_close, i), SharesPerTrade))
    /\ equity_curve' = Append(equity_curve,
                          CurrentEquity(cash, position, Iloc(data_close, i)))
    /\ i' = i + 1
    /\ UNCHANGED <<inputs, trades, cash, position, pc, bt_vars, rerun_vars, orch_vars>>

\* after the loop: if position is not None, close it at the last bar; return
ForceClose ==
    /\ pc = "loop" /\ ~(i < LenData)
    /\ position # NoPosition
    /\ LET closed == ClosedAtEnd(position[1], IlocLast(data_index), IlocLast(data_close))
       IN  /\ position' = <<closed>>
           /\ trades' = Append(trades, closed)
    /\ pc' = "done"
    /\ UNCHANGED <<inputs, equity_curve, cash, i, bt_vars, rerun_vars, orch_vars>>

\* after the loop with no open position: return
ReturnFlat ==
    /\ pc = "loop" /\ ~(i < LenData)
    /\ position = NoPosition
    /\ pc' = "done"
    /\ UNCHANGED <<inputs, trades, equity_curve, cash, position, i, bt_vars, rerun_vars, orch_vars>>

Next == SellBar \/ BuyBar \/ IdleBar \/ ForceClose \/ ReturnFlat

Spec == Init /\ [][Next]_vars

\* the simulation on series that collapse: a close of 0, and a close more than
\* 1 / commission times below another, with capital that just pays one entry
CrashPrices == {0, RateDen, RateDen * (RateDen + MaxPrice)}
TightCapitals == {p + TimesCommission(p) : p \in CrashPrices \ {0}}

CrashInit ==
    /\ \E n \in 2..MaxFetchedBars :
          /\ data_close \in [1..n -> CrashPrices]
          /\ data_index \in DateIndexes(n)
          /\ signals \in [1..n -> SignalValues]
    /\ initial_capital \in TightCapitals
    /\ trades = <<>>
    /\ equity_curve = InitialEquityCurve(initial_capital)
    /\ cash = initial_capital
    /\ position = NoPosition
    /\ i = FirstLoopBar
    /\ pc = "loop"
    /\ BtIdle
    /\ RerunIdle
    /\ OrchIdle

SpecCrash == CrashInit /\ [][Next]_vars

\* --------------------------------------------------------------- backtest
RangeDays == 1..MaxRangeDay

\* the strategies: the SMA crossover, and any other implementation of
\* generate_signals ("custom", whose signals are unconstrained)
Strategies ==
    {[family |-> "custom", fast_period |-> 0, slow_period |-> 0]}
    \cup {[family |-> "SMA", fast_period |-> f, slow_period |-> sl] :
             f \in 1..MaxPeriod, sl \in 1..MaxPeriod}

\* the signal sequences strategy.generate_signals(data) can return
StrategySignals(st, close) ==
    IF st.family = "SMA"
    THEN {SMASignals(close, st.fast_period, st.slow_period)}
    ELSE [1..Len(close) -> SignalValues]

BacktestInit ==
    /\ initial_capital \in Capitals
    /\ start_date \in RangeDays
    /\ end_date \in RangeDays
    /\ strategy \in Strategies
    /\ data_close = <<>>
    /\ data_index = <<>>
    /\ has_close = TRUE
    /\ signals = <<>>
    /\ trades = <<>>
    /\ equity_curve = <<>>
    /\ cash = 0
    /\ position = NoPosition
    /\ i = 0
    /\ results = NoResults
    /\ error = NoError
    /\ pc = "backtest"
    /\ RerunIdle
    /\ OrchIdle

sim_locals == <<trades, equity_curve, cash, position, i>>

\* data = yf.download(symbol, start=start_date, end=end_date): the data layer
\* is external; it returns any series of 0..MaxFetchedBars bars, with or without a
\* 'Close' column
Download ==
    /\ pc = "backtest"
    /\ \E n \in 0..MaxFetchedBars :
          /\ data_index' \in DateIndexes(n)
          /\ \E hc \in BOOLEAN :
                /\ has_close' = hc
                /\ data_close' \in IF hc THEN [1..n -> Prices] ELSE {<<>>}
    /\ pc' = "fetched"
    /\ UNCHANGED <<signals, initial_capital, sim_locals,
                   start_date, end_date, strategy, results, error,
                   rerun_vars, orch_vars>>

\* if data.empty: raise ValueError
RaiseNoData ==
    /\ pc = "fetched"
    /\ Len(data_index) = 0
    /\ error' = "ValueError"
    /\ pc' = "raised"
    /\ UNCHANGED <<inputs, sim_locals, start_date, end_date, has_close,
                   strategy, results, rerun_vars, orch_vars>>

\* if 'Close' not in data.columns: raise ValueError
RaiseNoClose ==
    /\ pc = "fetched"
    /\ Len(data_index) # 0
    /\ ~has_close
    /\ error' = "ValueError"
    /\ pc' = "raised"
    /\ UNCHANGED <<inputs, sim_locals, start_date, end_date, has_close,
                   strategy, results, rerun_vars, orch_vars>>

\* signals = strategy.generate_signals(data), then the call of
\* _simulate_trading up to the head of its loop
GenerateSignals ==
    /\ pc = "fetched"
    /\ Len(data_index) # 0
    /\ has_close
    /\ signals' \in StrategySignals(strategy, data_close)
    /\ trades' = <<>>
    /\ equity_curve' = InitialEquityCurve(initial_capital)
    /\ cash' = initial_capital
    /\ position' = NoPosition
    /\ i' = FirstLoopBar
    /\ pc' = "loop"
    /\ UNCHANGED <<data_close, data_index, initial_capital, bt_vars, rerun_vars, orch_vars>>

\* results = BacktestResults(...); return results
BuildResults ==
    /\ pc = "done"
    /\ results' = <<BacktestResults(StrategyName(strategy), start_date, end_date,
                                    initial_capital, trades, equity_curve,
                                    data_index)>>
    /\ pc' = "returned"
    /\ UNCHANGED <<inputs, sim_locals, start_date, end_date, has_close,
                   strategy, error, rerun_vars, orch_vars>>

BacktestNext ==
    \/ Download \/ RaiseNoData \/ RaiseNoClose \/ GenerateSignals
    \/ SellBar \/ BuyBar \/ IdleBar \/ ForceClose \/ ReturnFlat
    \/ BuildResults

SpecBacktest == BacktestInit /\ [][BacktestNext]_vars

\* ---------------------------------------------------- two identical calls
\* a second call of backtest with the same arguments, for which the data
\* layer returns the same series and the strategy the same signals: the
\* results of the first call are kept aside and _simulate_trading starts again
RunAgain ==
    /\ pc = "returned"
    /\ run = 1
    /\ first_run' = results
    /\ run' = 2
    /\ results' = NoResults
    /\ trades' = <<>>
    /\ equity_curve' = InitialEquityCurve(initial_capital)
    /\ cash' = initial_capital
    /\ position' = NoPosition
    /\ i' = FirstLoopBar
    /\ pc' = "loop"
    /\ UNCHANGED <<inputs, start_date, end_date, has_close, strategy, error,
                   orch_vars>>

RerunNext ==
    \/ Download \/ RaiseNoData \/ RaiseNoClose \/ GenerateSignals
    \/ SellBar \/ BuyBar \/ IdleBar \/ ForceClose \/ ReturnFlat
    \/ BuildResults \/ RunAgain

SpecRerun == BacktestInit /\ [][RerunNext]_vars

\* ------------------------------------------------------ optimize_strategy
\* the variables of backtest and _simulate_trading while an orchestration
\* method runs: each self.backtest call is taken as a whole, see BacktestOutcomes
SimIdle ==
    /\ data_close = <<>>
    /\ data_index = <<>>
    /\ signals = <<>>
    /\ initial_capital = 0
    /\ trades = <<>>
    /\ equity_curve = <<>>
    /\ cash = 0
    /\ position = NoPosition
    /\ i = 0

sim_vars == <<data_close, data_index, signals, initial_capital,
              trades, equity_curve, cash, position, i>>

\* np.inf: larger than every metric value of the model
Inf == MaxMetric + 1

\* the candidate lists of one parameter: 0..MaxValues distinct values
CandidateLists == {[p \in 1..n |-> p] : n \in 0..MaxValues}

\* list(param_grid.values()) of the grids
Grids == UNION {[1..n -> CandidateLists] : n \in 0..MaxParams}

Metrics == {"sharpe_ratio", "max_drawdown_pct", "no_such_field"}

\* itertools.product(*lists) as the sequence of its tuples: the last list
\* varies fastest, and the product of no lists is one empty tuple
RECURSIVE Product(_)
Product(lists) ==
    IF lists = <<>>
    THEN <<(<<>>)>>
    ELSE LET rest == Product(Tail(lists))
         IN  [idx \in 1..(Len(lists[1]) * Len(rest)) |->
                 <<lists[1][((idx - 1) \div Len(rest)) + 1]>>
                     \o rest[((idx - 1) % Len(rest)) + 1]]

Combinations == Product(param_values)

\* what strategy_class(**params) followed by self.backtest(...) can do for one
\* combination: raise, or return results.  The results are those of the
\* downloaded series, which the data layer decides; optimize_strategy reads
\* one field of them, so only the field named by metric is varied here
\* (sharpe_ratio is any number, max_drawdown_pct is never positive).
ResultsValues(m) ==
    IF m = "max_drawdown_pct"
    THEN {[sharpe_ratio |-> 0, max_drawdown_pct |-> d] : d \in (0 - MaxMetric)..0}
    ELSE IF m = "sharpe_ratio"
    THEN {[sharpe_ratio |-> v, max_drawdown_pct |-> 0] : v \in (0 - MaxMetric)..MaxMetric}
    ELSE {[sharpe_ratio |-> v, max_drawdown_pct |-> 0] : v \in {0, MaxMetric}}

BacktestOutcomes(params, m) ==
    {[params |-> params, raised |-> TRUE, results |-> <<>>]}
    \cup {[params |-> params, raised |-> FALSE,
           results |-> <<[params |-> params,
                          sharpe_ratio |-> r.sharpe_ratio,
                          max_drawdown_pct |-> r.max_drawdown_pct]>>] :
             r \in ResultsValues(m)}

\* mutant: the metric is always read from sharpe_ratio
MetricOfSharpeOnly(r, m) == r.sharpe_ratio

\* getattr(results, metric, 0)
MetricOf(r, m) ==
    IF m = "sharpe_ratio" THEN r.sharpe_ratio
    ELSE IF m = "max_drawdown_pct" THEN r.max_drawdown_pct
    ELSE 0

\* mutant: a maximised metric starts from 0
InitialBestMetricFromZero(m) == IF m # "max_drawdown_pct" THEN 0 ELSE Inf

\* best_metric = -np.inf if metric != 'max_drawdown_pct' else np.inf
InitialBestMetric(m) == IF m # "max_drawdown_pct" THEN 0 - Inf ELSE Inf

\* mutant: a tie replaces the best so far
IsBetterOrEqual(current, best, m) ==
    IF m # "max_drawdown_pct" THEN current >= best ELSE current <= best

\* is_better
IsBetter(current, best, m) ==
    IF m # "max_drawdown_pct" THEN current > best ELSE current < best

\* mutant: a failing combination ends the scan
NextAfterRaiseBreak(idx, total) == total + 1

\* except Exception: ...; continue
NextAfterRaise(idx, total) == idx + 1

OptInit ==
    /\ param_values \in Grids
    /\ metric \in Metrics
    /\ combo_k = 1
    /\ best_metric = InitialBestMetric(metric)
    /\ best_params = <<>>
    /\ best_results = <<>>
    /\ strategies = <<>>
    /\ comparison = <<>>
    /\ cmp_k = 0
    /\ evaluated = <<>>
    /\ printed = <<>>
    /\ cancel_requested = FALSE
    /\ pc = "opt"
    /\ SimIdle
    /\ BtIdle
    /\ RerunIdle

InScan == pc = "opt" /\ combo_k <= Len(Combinations)

\* one combination whose backtest returns results better than the best so far
OptBetter ==
    /\ InScan
    /\ \E out \in BacktestOutcomes(Combinations[combo_k], metric) :
          /\ ~out.raised
          /\ IsBetter(MetricOf(out.results[1], metric), best_metric, metric)
          /\ best_metric' = MetricOf(out.results[1], metric)
          /\ best_params' = <<out.params>>
          /\ best_results' = out.results
          /\ evaluated' = Append(evaluated, out)
    /\ combo_k' = combo_k + 1
    /\ UNCHANGED <<sim_vars, pc, bt_vars, rerun_vars, cmp_vars,
                   param_values, metric, printed, cancel_requested>>

\* one combination whose backtest returns results that are not better
OptNotBetter ==
    /\ InScan
    /\ \E out \in BacktestOutcomes(Combinations[combo_k], metric) :
          /\ ~out.raised
          /\ ~IsBetter(MetricOf(out.results[1], metric), best_metric, metric)
          /\ evaluated' = Append(evaluated, out)
    /\ combo_k' = combo_k + 1
    /\ UNCHANGED <<sim_vars, pc, bt_vars, rerun_vars, cmp_vars,
                   param_values, metric, best_metric, best_params,
                   best_results, printed, cancel_requested>>

\* one combination whose construction or backtest raises: print and continue
OptRaise ==
    /\ InScan
    /\ \E out \in BacktestOutcomes(Combinations[combo_k], metric) :
          /\ out.raised
          /\ evaluated' = Append(evaluated, out)
          /\ printed' = Append(printed, <<"Error with params", out.params>>)
    /\ combo_k' = NextAfterRaise(combo_k, Len(Combinations))
    /\ UNCHANGED <<sim_vars, pc, bt_vars, rerun_vars, cmp_vars,
                   param_values, metric, best_metric, best_params,
                   best_results, cancel_requested>>

\* return best_params, best_results
OptReturn ==
    /\ pc = "opt"
    /\ ~(combo_k <= Len(Combinations))
    /\ pc' = "opt_returned"
    /\ UNCHANGED <<sim_vars, bt_vars, rerun_vars, orch_vars>>

OptNext == OptBetter \/ OptNotBetter \/ OptRaise \/ OptReturn

SpecOptimize == OptInit /\ [][OptNext]_vars

\* the caller asks the running search to stop; optimize_strategy has no
\* parameter, attribute or global through which it could learn of it
RequestCancel ==
    /\ pc = "opt"
    /\ ~cancel_requested
    /\ cancel_requested' = TRUE
    /\ UNCHANGED <<sim_vars, pc, bt_vars, rerun_vars, opt_vars, cmp_vars,
                   call_vars>>

CancelNext == OptNext \/ RequestCancel

SpecCancel == OptInit /\ [][CancelNext]_vars

\* ------------------------------------------------------ compare_strategies
MaxStrategies == 3

\* RelativeStrengthIndex(period, oversold, overbought) instances
RSIStrategies ==
    {[family |-> "RSI", period |-> p, oversold |-> o, overbought |-> 100 - o] :
        p \in 1..MaxPeriod, o \in {20, 30}}

\* f"RSI_{period}": the levels are not part of the name
RSIName(st) == <<st.family, st.period>>

\* the lists of strategy instances compare_strategies is called with
StrategyLists == UNION {[1..n -> RSIStrategies] : n \in 0..MaxStrategies}

\* what self.backtest(symbol, strategy, ...) can do for one instance: raise,
\* or return the results of that instance
StrategyOutcomes(st) ==
    {[strategy |-> st, raised |-> TRUE, results |-> <<>>],
     [strategy |-> st, raised |-> FALSE,
      results |-> <<[strategy_name |-> RSIName(st), strategy |-> st]>>]}

\* comparison[name] = value
Store(d, name, value) ==
    [n \in DOMAIN d \cup {name} |-> IF n = name THEN value ELSE d[n]]

CmpInit ==
    /\ strategies \in StrategyLists
    /\ comparison = <<>>
    /\ cmp_k = 1
    /\ evaluated = <<>>
    /\ printed = <<>>
    /\ cancel_requested = FALSE
    /\ param_values = <<>>
    /\ metric = "none"
    /\ combo_k = 0
    /\ best_metric = 0
    /\ best_params = <<>>
    /\ best_results = <<>>
    /\ pc = "cmp"
    /\ SimIdle
    /\ BtIdle
    /\ RerunIdle

InList == pc = "cmp" /\ cmp_k <= Len(strategies)

\* one strategy whose backtest returns: comparison[strategy.name] = results
CmpResults ==
    /\ InList
    /\ \E out \in StrategyOutcomes(strategies[cmp_k]) :
          /\ ~out.raised
          /\ comparison' = Store(comparison, RSIName(out.strategy), out.results)
          /\ evaluated' = Append(evaluated, out)
    /\ cmp_k' = cmp_k + 1
    /\ UNCHANGED <<sim_vars, pc, bt_vars, rerun_vars, opt_vars, strategies,
                   printed, cancel_requested>>

\* one strategy whose backtest raises: print, comparison[strategy.name] = None
CmpRaise ==
    /\ InList
    /\ \E out \in StrategyOutcomes(strategies[cmp_k]) :
          /\ out.raised
          /\ comparison' = Store(comparison, RSIName(out.strategy), out.results)
          /\ evaluated' = Append(evaluated, out)
          /\ printed' = Append(printed,
                               <<"Error backtesting", RSIName(out.strategy)>>)
    /\ cmp_k' = cmp_k + 1
    /\ UNCHANGED <<sim_vars, pc, bt_vars, rerun_vars, opt_vars, strategies,
                   cancel_requested>>

\* return comparison
CmpReturn ==
    /\ pc = "cmp"
    /\ ~(cmp_k <= Len(strategies))
    /\ pc' = "cmp_returned"
    /\ UNCHANGED <<sim_vars, bt_vars, rerun_vars, orch_vars>>

CmpNext == CmpResults \/ CmpRaise \/ CmpReturn

SpecCompare == CmpInit /\ [][CmpNext]_vars

\* ------------------------------------------------------------ buy_and_hold
\* float products and differences of the benchmark, as exact fractions
FracTimes(f, n) == Norm(Frac(f[1] * n, f[2]))
FracMinus(a, b) == FracAdd(a, Frac(0 - b[1], b[2]))

\* shares = self.initial_capital / entry_price
BuyAndHoldShares(capital, entry_price) == Norm(Frac(capital, entry_price))

\* Trade(...) and its __post_init__ for a long trade constructed closed with
\* a fractional number of shares
FracTrade(entry_date, exit_date, entry_price, exit_price, shares) ==
    LET entry_cost == FracTimes(shares, entry_price)
        exit_cost == FracTimes(shares, exit_price)
        profit_loss == FracMinus(exit_cost, entry_cost)
    IN  [entry_date |-> entry_date, exit_date |-> exit_date,
         symbol |-> "UNKNOWN", position_type |-> LONG,
         entry_price |-> entry_price, exit_price |-> exit_price,
         shares |-> shares,
         entry_cost |-> entry_cost, exit_cost |-> exit_cost,
         profit_loss |-> profit_loss,
         profit_loss_pct |-> IF entry_cost[1] > 0
                             THEN Norm(Frac(profit_loss[1] * 100 * entry_cost[2],
                                            profit_loss[2] * entry_cost[1]))
                             ELSE FracZero,
         duration_days |-> exit_date - entry_date]

\* mutant: the commission of a sale is deducted from the value of a bar
CurrentValueLessCommission(shares, close) ==
    LET value == FracTimes(shares, close)
    IN  FracMinus(value, Norm(Frac(value[1] * RateNum, value[2] * RateDen)))

\* current_value = shares * data['Close'].iloc[i]
CurrentValue(shares, close) == FracTimes(shares, close)

\* the equity values in units of 1 / unit, which are integers when unit is
\* the entry price
InUnits(curve, unit) == [k \in 1..Len(curve) |-> (curve[k][1] * unit) \div curve[k][2]]

\* BacktestResults("Buy & Hold", ...) and its __post_init__; the metrics are
\* ratios of equity values, so they are computed with the equity values and
\* the capital in units of 1 / entry_price
BuyAndHoldResults(start, end, capital, trade, curve, dates) ==
    [ResultsOf("Buy & Hold", start, end, capital * trade.entry_price,
               <<trade>>, InUnits(curve, trade.entry_price), dates,
               <<trade.profit_loss>>)
        EXCEPT !.initial_capital = capital, !.equity_curve = curve]

BhInit ==
    /\ \E n \in 1..MaxBars :
          /\ data_close \in [1..n -> Prices]
          /\ data_index \in DateIndexes(n)
    /\ signals = <<>>
    /\ initial_capital \in Capitals
    /\ trades = <<>>
    /\ equity_curve = <<>>
    /\ cash = 0
    /\ position = NoPosition
    /\ i = 0
    /\ pc = "bh"
    /\ BtIdle
    /\ RerunIdle
    /\ OrchIdle

\* the trade from the first bar to the last, and the first equity value
BhTrade ==
    /\ pc = "bh"
    /\ LET entry_price == Iloc(data_close, 0)
           exit_price == IlocLast(data_close)
           shares == BuyAndHoldShares(initial_capital, entry_price)
       IN  position' = <<FracTrade(data_index[1], IlocLast(data_index),
                                   entry_price, exit_price, shares)>>
    /\ equity_curve' = <<Frac(initial_capital, 1)>>
    /\ i' = 1
    /\ pc' = "bh_curve"
    /\ UNCHANGED <<inputs, trades, cash, bt_vars, rerun_vars, orch_vars>>

\* for i in range(1, len(data)): one bar
BhBar ==
    /\ pc = "bh_curve"
    /\ i < Len(data_close)
    /\ equity_curve' = Append(equity_curve,
                              CurrentValue(position[1].shares, Iloc(data_close, i)))
    /\ i' = i + 1
    /\ UNCHANGED <<inputs, trades, cash, position, pc, bt_vars, rerun_vars,
                   orch_vars>>

\* results = BacktestResults(...); return results
BhReturn ==
    /\ pc = "bh_curve"
    /\ ~(i < Len(data_close))
    /\ trades' = <<position[1]>>
    /\ results' = <<BuyAndHoldResults(data_index[1], IlocLast(data_index),
                                      initial_capital, position[1],
                                      equity_curve, data_index)>>
    /\ pc' = "bh_returned"
    /\ UNCHANGED <<inputs, equity_curve, cash, position, i, start_date,
                   end_date, has_close, strategy, error, rerun_vars, orch_vars>>

BhNext == BhTrade \/ BhBar \/ BhReturn

SpecBuyAndHold == BhInit /\ [][BhNext]_vars

\* ------------------------------------------- BacktestResults.__post_init__
MaxCurve == 4         \* an equity curve has 0..MaxCurve values
MaxEquity == 3        \* equity values are drawn from 1..MaxEquity
MaxTrades == 2        \* a trade list has 0..MaxTrades trades

EquityCurves == UNION {[1..n -> 1..MaxEquity] : n \in 0..MaxCurve}

\* closed trades that won, lost or broke even, and an open trade
MetricTrades ==
    {Trade(1, 2, LONG, e, x, SharesPerTrade, MaxNow) : e, x \in Prices}
    \cup {Trade(1, None, LONG, RateDen, None, SharesPerTrade, MaxNow)}

TradeLists == UNION {[1..n -> MetricTrades] : n \in 0..MaxTrades}

\* the exception __post_init__ raises, NoError if it returns: the annualized
\* return divides by initial_capital without a guard
PostInitError(capital) == IF capital = 0 THEN "ZeroDivisionError" ELSE NoError

MetricsInit ==
    /\ equity_curve \in EquityCurves
    /\ trades \in TradeLists
    /\ initial_capital \in {0} \cup Capitals
    /\ start_date = 1
    /\ end_date \in RangeDays
    /\ has_close = TRUE
    /\ strategy = NoStrategy
    /\ results = NoResults
    /\ error = NoError
    /\ data_close = <<>>
    /\ data_index = <<>>
    /\ signals = <<>>
    /\ cash = 0
    /\ position = NoPosition
    /\ i = 0
    /\ pc = "construct"
    /\ RerunIdle
    /\ OrchIdle

\* BacktestResults(...) returns the object with its metrics
PostInit ==
    /\ pc = "construct"
    /\ PostInitError(initial_capital) = NoError
    /\ results' = <<BacktestResults(StrategyName(strategy), start_date, end_date,
                                    initial_capital, trades, equity_curve,
                                    [k \in 1..Len(equity_curve) |-> k])>>
    /\ pc' = "constructed"
    /\ UNCHANGED <<inputs, sim_locals, start_date, end_date, has_close,
                   strategy, error, rerun_vars, orch_vars>>

\* BacktestResults(...) raises out of __post_init__
PostInitRaise ==
    /\ pc = "construct"
    /\ PostInitError(initial_capital) # NoError
    /\ error' = PostInitError(initial_capital)
    /\ pc' = "raised"
    /\ UNCHANGED <<inputs, sim_locals, start_date, end_date, has_close,
                   strategy, results, rerun_vars, orch_vars>>

MetricsNext == PostInit \/ PostInitRaise

SpecMetrics == MetricsInit /\ [][MetricsNext]_vars

\* ------------------------------------------------------- generate_signals
MaxSeries == 5        \* a close series has 0..MaxSeries bars
MaxClose == 4         \* close prices are drawn from 1..MaxClose

CloseSeries == UNION {[1..n -> 1..MaxClose] : n \in 0..MaxSeries}

\* close.diff() with the NaN of the first bar replaced by 0, as
\* delta.where(delta > 0, 0) and delta.where(delta < 0, 0) replace it
Delta(close, k) == IF k = 1 THEN 0 ELSE close[k] - close[k - 1]
Gain(close, k) == IF Delta(close, k) > 0 THEN Delta(close, k) ELSE 0
Loss(close, k) == IF Delta(close, k) < 0 THEN 0 - Delta(close, k) ELSE 0

\* the sums of the rolling means of gain and loss over the window ending at k
RECURSIVE GainSum(_, _, _)
GainSum(close, window, k) ==
    IF window = 0 THEN 0 ELSE Gain(close, k) + GainSum(close, window - 1, k - 1)
RECURSIVE LossSum(_, _, _)
LossSum(close, window, k) ==
    IF window = 0 THEN 0 ELSE Loss(close, k) + LossSum(close, window - 1, k - 1)

\* RelativeStrengthIndex.generate_signals: rs = gain / loss is NaN for 0 / 0
\* and inf for a gain over no loss, rsi = 100 - 100 / (1 + rs) is
\* 100 * gain / (gain + loss), NaN compares False, and the sell assignment
\* comes last
RSISignals(close, period, oversold, overbought) ==
    [k \in 1..Len(close) |->
        IF k < period THEN HOLD
        ELSE LET g == GainSum(close, period, k)
                 l == LossSum(close, period, k)
             IN  IF l = 0 /\ g = 0 THEN HOLD
                 ELSE IF 100 * g > overbought * (g + l) THEN SELL
                 ELSE IF 100 * g < oversold * (g + l) THEN BUY
                 ELSE HOLD]

SMAStrategies == {st \in Strategies : st.family = "SMA"}

SignalsInit ==
    /\ data_close \in CloseSeries
    /\ \/ strategy \in SMAStrategies
       \/ strategy \in RSIStrategies
    /\ data_index = <<>>
    /\ signals = <<>>
    /\ initial_capital = 0
    /\ trades = <<>>
    /\ equity_curve = <<>>
    /\ cash = 0
    /\ position = NoPosition
    /\ i = 0
    /\ pc = "strategy"
    /\ start_date = 0
    /\ end_date = 0
    /\ has_close = TRUE
    /\ results = NoResults
    /\ error = NoError
    /\ RerunIdle
    /\ OrchIdle

\* SimpleMovingAverageCrossover.generate_signals(data)
GenerateSMA ==
    /\ pc = "strategy"
    /\ strategy.family = "SMA"
    /\ signals' = SMASignals(data_close, strategy.fast_period, strategy.slow_period)
    /\ pc' = "generated"
    /\ UNCHANGED <<data_close, data_index, initial_capital, sim_locals, bt_vars,
                   rerun_vars, orch_vars>>

\* RelativeStrengthIndex.generate_signals(data)
GenerateRSI ==
    /\ pc = "strategy"
    /\ strategy.family = "RSI"
    /\ signals' = RSISignals(data_close, strategy.period, strategy.oversold,
                             strategy.overbought)
    /\ pc' = "generated"
    /\ UNCHANGED <<data_close, data_index, initial_capital, sim_locals, bt_vars,
                   rerun_vars, orch_vars>>

SignalsNext == GenerateSMA \/ GenerateRSI

SpecSignals == SignalsInit /\ [][SignalsNext]_vars

\* ------------------------------------------------------- simulator claims
Flat == position = NoPosition
Holding == position # NoPosition

\* the close, date and signal of the bar the loop is about to process
BarClose == data_close[i + 1]
BarDate == data_index[i + 1]
BarSignal == signals[i + 1]
AtBar == pc = "loop" /\ i < Len(data_close)

\* close * shares + rate * close * shares for the bar about to be processed
BarEntryCost ==
    BarClose * SharesPerTrade + (BarClose * SharesPerTrade * RateNum) \div RateDen

\* C1: once the simulation has returned, the equity curve has one element per
\* bar of the price series, and its first element is the initial capital
\* (the first element is the initial capital from the start).
C1_EquityCurveShape ==
    /\ equity_curve # <<>>
    /\ equity_curve[1] = initial_capital
    /\ pc = "done" => Len(equity_curve) = Len(data_close)

C1_Witness ==
    /\ pc = "done"
    /\ Len(data_close) > 2
    /\ trades # <<>>
    /\ equity_curve[Len(equity_curve)] # initial_capital

\* C2: the run starts Flat with cash = initial capital at the second bar and
\* never goes back to the first bar; a step from a Flat state whose bar has a
\* Buy signal and enough cash opens a trade at the bar's close and date,
\* takes close*shares + rate*close*shares from cash, and leaves Holding.
C2_OpenOnBuy ==
    /\ (i = 1 /\ Flat /\ cash = initial_capital)
    /\ [](i >= 1)
    /\ [][(AtBar /\ Flat /\ BarSignal = 1 /\ cash >= BarEntryCost)
            => /\ position' # <<>>
               /\ Len(position') = 1
               /\ position'[1].entry_price = BarClose
               /\ position'[1].entry_date = BarDate
               /\ position'[1].shares = SharesPerTrade
               /\ position'[1].exit_date = None
               /\ position'[1].exit_price = None
               /\ cash' = cash - BarEntryCost
               /\ trades' = trades]_vars

C2_Witness ==
    /\ pc = "loop"
    /\ i > 1
    /\ Holding
    /\ position[1].entry_date = data_index[i]
    /\ position[1].entry_price = data_close[i]
    /\ cash < initial_capital - data_close[i] * SharesPerTrade

\* C3 (as claimed): a step from a Holding state whose bar has a Sell signal
\* appends the position to the trade list closed at the bar's close and date,
\* leaves Flat, and adds exit_price*shares - rate*exit_price*shares to cash.
C3_CloseOnSell ==
    [][(AtBar /\ Holding /\ BarSignal = 0 - 1)
         => /\ position' = <<>>
            /\ Len(trades') = Len(trades) + 1
            /\ trades'[Len(trades')].exit_price = BarClose
            /\ trades'[Len(trades')].exit_date = BarDate
            /\ cash' = cash + BarClose * position[1].shares
                         - (BarClose * position[1].shares * RateNum) \div RateDen]_vars

\* C4: a step from a bar that is neither Flat+Buy with enough cash nor
\* Holding+Sell leaves cash, the position and the trade list unchanged, stays
\* in the loop, and appends exactly one value to the equity curve.
C4_IdleBarFrame ==
    [][(/\ AtBar
        /\ ~(Flat /\ BarSignal = 1 /\ cash >= BarEntryCost)
        /\ ~(Holding /\ BarSignal = 0 - 1))
         => /\ cash' = cash
            /\ position' = position
            /\ trades' = trades
            /\ pc' = "loop"
            /\ i' = i + 1
            /\ Len(equity_curve') = Len(equity_curve) + 1
            /\ SubSeq(equity_curve', 1, Len(equity_curve)) = equity_curve]_vars

\* a Buy signal met while Flat was ignored for lack of cash, and the bar's
\* equity was recorded
C4_Witness ==
    /\ pc = "loop"
    /\ i > 1
    /\ Flat
    /\ trades = <<>>
    /\ signals[i] = 1
    /\ cash = initial_capital
    /\ cash < data_close[i] * SharesPerTrade
                + (data_close[i] * SharesPerTrade * RateNum) \div RateDen
    /\ Len(equity_curve) = i

\* C5: the equity value recorded for the bar just processed (and for bar 0
\* before the loop) is cash when Flat, and cash + shares * that bar's close
\* when Holding.
C5_EquityOfBar ==
    /\ Len(equity_curve) = i
    /\ equity_curve[i] = IF position = <<>>
                         THEN cash
                         ELSE cash + position[1].shares * data_close[i]

C5_Witness ==
    /\ pc = "loop"
    /\ i > 2
    /\ Holding
    /\ position[1].entry_date < data_index[i]
    /\ position[1].entry_price # data_close[i]
    /\ equity_curve[i] # cash

\* C6: once the simulation has returned, every trade of the trade list has an
\* exit date and an exit price, and a position that was still open after the
\* last bar is the last trade of the list, closed at the last bar's close and
\* date.
C6_AllTradesClosed ==
    pc = "done" =>
        /\ \A k \in 1..Len(trades) :
              trades[k].exit_date # None /\ trades[k].exit_price # None
        /\ position # <<>> =>
              /\ trades # <<>>
              /\ trades[Len(trades)].entry_date = position[1].entry_date
              /\ trades[Len(trades)].exit_price = data_close[Len(data_close)]
              /\ trades[Len(trades)].exit_date = data_index[Len(data_index)]

C6_Witness ==
    /\ pc = "done"
    /\ position # <<>>
    /\ trades # <<>>
    /\ position[1].entry_date < data_index[Len(data_index)]
    /\ position[1].entry_price # data_close[Len(data_close)]

\* C7 (as claimed): the exit date of every trade of the trade list is
\* strictly after its entry date.
C7_ExitAfterEntry ==
    \A k \in 1..Len(trades) : trades[k].exit_date > trades[k].entry_date

\* the commission amounts a closed trade may be said to have been charged:
\* the exit commission alone (on either notional), or entry and exit together,
\* or the entry commission alone (end-of-series close)
CommissionReadings(t) ==
    LET entry == (t.entry_price * t.shares * RateNum) \div RateDen
        exit == (t.exit_price * t.shares * RateNum) \div RateDen
    IN  {entry, exit, entry + exit, entry + entry}

\* C8 (as claimed): every trade of the trade list has exit proceeds
\* exit_price * shares, profit_loss = exit proceeds - entry cost less the
\* commission charged on it, and duration_days = exit date - entry date.
C8_DerivedOnClose ==
    \A k \in 1..Len(trades) :
        /\ trades[k].exit_cost = trades[k].exit_price * trades[k].shares
        /\ \E c \in CommissionReadings(trades[k]) :
              trades[k].profit_loss =
                  trades[k].exit_price * trades[k].shares
                    - trades[k].entry_price * trades[k].shares - c
        /\ trades[k].duration_days = trades[k].exit_date - trades[k].entry_date

\* C9 (as claimed): every trade of the trade list has
\* profit_loss_pct = profit_loss / entry_cost * 100.
C9_ProfitLossPct ==
    \A k \in 1..Len(trades) :
        /\ trades[k].entry_price * trades[k].shares > 0
        /\ trades[k].profit_loss_pct[1] * (trades[k].entry_price * trades[k].shares)
             = trades[k].profit_loss * 100 * trades[k].profit_loss_pct[2]

\* C10 (as claimed): a simulation that has returned Flat has
\* final cash - initial capital = the sum of profit_loss over its trades.
C10_CashMatchesProfitLoss ==
    (pc = "done" /\ Flat) => cash - initial_capital = SumProfitLoss(trades)

\* --------------------------------------------------------- backtest claims
\* C11 (as claimed): a backtest whose fetched series has fewer than 2 bars or
\* no close column ends by raising an error, without generating signals,
\* simulating or producing a result; and a backtest raises for no other
\* reason (in particular not for a bar with insufficient cash).
C11_ShortSeriesFails ==
    /\ (/\ pc \notin {"backtest", "fetched"}
        /\ (Len(data_index) < 2 \/ ~has_close))
          => (pc = "raised" /\ error # "none" /\ results = <<>>)
    /\ pc = "raised" => (Len(data_index) < 2 \/ ~has_close)

\* C12 (as claimed): a backtest whose start date is not before its end date
\* never reaches signal generation, simulation or a result.
C12_DateRangeRejected ==
    start_date >= end_date => pc \in {"backtest", "fetched", "raised"}

\* C13 (as claimed): the second of two backtest calls on the same series,
\* strategy, signals, capital and commission returns results identical to the
\* first call's: the same trades field by field, the same equity curve and
\* the same metrics.
C13_Deterministic ==
    (pc = "returned" /\ run = 2) => results = first_run

\* -------------------------------------------------------- optimizer claims
\* the number of combinations of a grid, and the 0-based place of one
\* combination in the Cartesian-product scan (last parameter fastest)
RECURSIVE GridSize(_)
GridSize(lists) ==
    IF lists = <<>> THEN 1 ELSE Len(lists[1]) * GridSize(Tail(lists))

PlaceIn(list, v) == CHOOSE p \in 1..Len(list) : list[p] = v

RECURSIVE ScanRank(_, _)
ScanRank(lists, combo) ==
    IF lists = <<>> THEN 0
    ELSE (PlaceIn(lists[1], combo[1]) - 1) * GridSize(Tail(lists))
           + ScanRank(Tail(lists), Tail(combo))

Succeeded == {j \in 1..Len(evaluated) : ~evaluated[j].raised}

\* the value a maximised metric takes on the results of call j
MaximisedValue(j) ==
    IF metric = "sharpe_ratio" THEN evaluated[j].results[1].sharpe_ratio ELSE 0

\* C14: when optimize_strategy returns for a maximised metric, every
\* combination of the grid was tried in Cartesian-product order, and if any
\* backtest succeeded, the returned parameters and results are those of the
\* first successful combination whose metric value is the maximum over the
\* successful ones.
C14_FirstMaximum ==
    (pc = "opt_returned" /\ metric # "max_drawdown_pct") =>
        /\ Len(evaluated) = GridSize(param_values)
        /\ \A j \in 1..Len(evaluated) :
              ScanRank(param_values, evaluated[j].params) = j - 1
        /\ Succeeded # {} =>
              \E j \in Succeeded :
                  /\ best_results = evaluated[j].results
                  /\ best_params = <<evaluated[j].params>>
                  /\ best_metric = MaximisedValue(j)
                  /\ \A l \in Succeeded :
                        /\ MaximisedValue(l) <= MaximisedValue(j)
                        /\ MaximisedValue(l) = MaximisedValue(j) => j <= l

\* the maximum is reached twice, after a lower value; the first of the two
\* is returned
C14_Witness ==
    /\ pc = "opt_returned"
    /\ metric = "sharpe_ratio"
    /\ Len(param_values) = 2
    /\ \E h, j, l \in Succeeded :
          /\ h < j /\ j < l
          /\ MaximisedValue(h) < MaximisedValue(j)
          /\ MaximisedValue(l) = MaximisedValue(j)
          /\ best_metric = MaximisedValue(j)
          /\ best_params = <<evaluated[j].params>>
          /\ evaluated[j].params # evaluated[l].params

\* C15 (as claimed): when optimize_strategy returns a result for the metric
\* max_drawdown_pct, its max_drawdown_pct is not more negative than that of
\* any successfully evaluated combination.
C15_ShallowestDrawdown ==
    (pc = "opt_returned" /\ metric = "max_drawdown_pct" /\ best_results # <<>>) =>
        \A j \in Succeeded :
            best_results[1].max_drawdown_pct
                >= evaluated[j].results[1].max_drawdown_pct

\* C16: a step in which a combination raises leaves best_params,
\* best_results and best_metric unchanged, prints one line naming the
\* combination and stays in the scan; and when optimize_strategy returns,
\* every combination of the grid has been tried.
C16_RaiseIsSkipped ==
    /\ [][(/\ pc = "opt"
           /\ Len(evaluated') = Len(evaluated) + 1
           /\ evaluated'[Len(evaluated')].raised)
            => /\ best_params' = best_params
               /\ best_results' = best_results
               /\ best_metric' = best_metric
               /\ pc' = "opt"
               /\ Len(printed') = Len(printed) + 1
               /\ printed'[Len(printed')][2] = evaluated'[Len(evaluated')].params]_vars
    /\ [](pc = "opt_returned" =>
            /\ Len(evaluated) = GridSize(param_values)
            /\ \A j \in 1..Len(evaluated) :
                  ScanRank(param_values, evaluated[j].params) = j - 1)

\* a combination raised, a later one succeeded and is the one returned
C16_Witness ==
    /\ pc = "opt_returned"
    /\ printed # <<>>
    /\ \E j, l \in 1..Len(evaluated) :
          /\ j < l
          /\ evaluated[j].raised
          /\ ~evaluated[l].raised
          /\ best_results = evaluated[l].results

GridIsEmpty ==
    param_values = <<>> \/ \E p \in 1..Len(param_values) : param_values[p] = <<>>

\* C17 (as claimed): optimize_strategy returns no parameters and no results
\* when every combination raised or the grid is empty (no parameter, or a
\* parameter without candidate values), and for an empty grid no backtest is
\* run.
C17_NoResult ==
    pc = "opt_returned" =>
        /\ (Succeeded = {} \/ GridIsEmpty) =>
              (best_params = <<>> /\ best_results = <<>>)
        /\ GridIsEmpty => evaluated = <<>>

\* C18 (as claimed): when compare_strategies returns, every strategy of the
\* list was run and has an entry under its name, the entry of every strategy
\* whose backtest raised is null, and no error reached the caller.
C18_FailedIsNull ==
    pc = "cmp_returned" =>
        /\ Len(evaluated) = Len(strategies)
        /\ error = NoError
        /\ \A j \in 1..Len(strategies) :
              /\ evaluated[j].strategy = strategies[j]
              /\ RSIName(strategies[j]) \in DOMAIN comparison
              /\ evaluated[j].raised =>
                    comparison[RSIName(strategies[j])] = <<>>

\* the part of C18 that the code keeps: every strategy is run and recorded
\* whatever the others did, and nothing propagates
C18_FailureIsolated ==
    pc = "cmp_returned" =>
        /\ Len(evaluated) = Len(strategies)
        /\ error = NoError
        /\ \A j \in 1..Len(strategies) :
              /\ evaluated[j].strategy = strategies[j]
              /\ RSIName(strategies[j]) \in DOMAIN comparison

\* C19: the result buy_and_hold returns for a non-empty series has exactly one
\* trade, entered at the first bar's date and close and exited at the last
\* bar's date and close with initial_capital / entry_price shares, and an
\* equity curve of the length of the series whose first value is the initial
\* capital and whose value at every later bar is shares * close of that bar.
C19_BuyAndHoldShape ==
    pc = "bh_returned" =>
        LET r == results[1]
            n == Len(data_close)
        IN  /\ Len(r.trades) = 1
            /\ r.trades[1].entry_date = data_index[1]
            /\ r.trades[1].entry_price = data_close[1]
            /\ r.trades[1].exit_date = data_index[n]
            /\ r.trades[1].exit_price = data_close[n]
            /\ FracEq(r.trades[1].shares, Frac(initial_capital, data_close[1]))
            /\ Len(r.equity_curve) = n
            /\ FracEq(r.equity_curve[1], Frac(initial_capital, 1))
            /\ \A b \in 2..n :
                  FracEq(r.equity_curve[b],
                         Frac(initial_capital * data_close[b], data_close[1]))

\* a returned benchmark of several bars with a fractional number of shares
\* and a last close that differs from the first
C19_Witness ==
    /\ pc = "bh_returned"
    /\ Len(data_close) >= 3
    /\ initial_capital % data_close[1] # 0
    /\ data_close[Len(data_close)] # data_close[1]

\* C20: when backtest returns for an SMA crossover strategy on a series whose
\* close is the same at every bar, with positive initial capital, every signal
\* is Hold, no trade was opened, every equity value is the initial capital,
\* and total_return_pct, max_drawdown_pct, sharpe_ratio, sortino_ratio and
\* calmar_ratio are all zero.
ConstantClose == \A a, b \in 1..Len(data_close) : data_close[a] = data_close[b]

C20_ConstantSeriesIsFlat ==
    (/\ pc = "returned"
     /\ strategy.family = "SMA"
     /\ ConstantClose
     /\ initial_capital > 0) =>
        LET r == results[1]
        IN  /\ \A b \in 1..Len(signals) : signals[b] = HOLD
            /\ trades = <<>>
            /\ position = NoPosition
            /\ r.trades = <<>>
            /\ Len(equity_curve) = Len(data_close)
            /\ \A b \in 1..Len(equity_curve) : equity_curve[b] = initial_capital
            /\ r.equity_curve = equity_curve
            /\ r.total_return_pct[1] = 0
            /\ r.max_drawdown_pct[1] = 0
            /\ r.sharpe_ratio = ZeroRatio
            /\ r.sortino_ratio = ZeroRatio
            /\ r.calmar_ratio = ZeroCalmar

\* a returned backtest of a constant series long enough for both moving
\* averages, of different periods, to be defined at its last bars
C20_Witness ==
    /\ pc = "returned"
    /\ strategy.family = "SMA"
    /\ ConstantClose
    /\ Len(data_close) >= 3
    /\ strategy.fast_period < Len(data_close)
    /\ strategy.slow_period < Len(data_close)
    /\ strategy.fast_period # strategy.slow_period

\* the bars of the deepest drawdown of the equity curve, and whether the curve
\* has a drawdown at all
IsTrough(t) ==
    /\ t \in 1..Len(equity_curve)
    /\ \A b \in 1..Len(equity_curve) :
          (equity_curve[t] - RunningMax(equity_curve, t)) * RunningMax(equity_curve, b)
             <= (equity_curve[b] - RunningMax(equity_curve, b)) * RunningMax(equity_curve, t)
    /\ \A b \in 1..(t - 1) :
          (equity_curve[t] - RunningMax(equity_curve, t)) * RunningMax(equity_curve, b)
             < (equity_curve[b] - RunningMax(equity_curve, b)) * RunningMax(equity_curve, t)
HasDrawdown ==
    \E b \in 1..Len(equity_curve) : equity_curve[b] < RunningMax(equity_curve, b)
RecoversAt(t, b) ==
    /\ b \in (t + 1)..Len(equity_curve)
    /\ equity_curve[b] >= RunningMax(equity_curve, t)
    /\ \A c \in (t + 1)..(b - 1) : equity_curve[c] < RunningMax(equity_curve, t)

\* C21 (as claimed): the recovery_time of a constructed result is 0 when the
\* curve has no drawdown or never recovers, and otherwise the number of bars
\* from the trough of the maximum drawdown to the first later bar whose equity
\* is at least the running maximum at the trough.
C21_RecoveryTime ==
    pc = "constructed" =>
        /\ ~HasDrawdown => results[1].recovery_time = 0
        /\ HasDrawdown =>
              \A t \in 1..Len(equity_curve) :
                 IsTrough(t) =>
                    /\ \A b \in 1..Len(equity_curve) :
                          RecoversAt(t, b) => results[1].recovery_time = b - t
                    /\ (~\E b \in 1..Len(equity_curve) : RecoversAt(t, b)) =>
                          results[1].recovery_time = 0

\* the part of C21 the code keeps: the curves that have a drawdown
C21_RecoveryAfterDrawdown ==
    (pc = "constructed" /\ HasDrawdown) =>
        \A t \in 1..Len(equity_curve) :
           IsTrough(t) =>
              /\ \A b \in 1..Len(equity_curve) :
                    RecoversAt(t, b) => results[1].recovery_time = b - t
              /\ (~\E b \in 1..Len(equity_curve) : RecoversAt(t, b)) =>
                    results[1].recovery_time = 0

\* the closed trades of the trade list, and the sums of their wins and losses
ClosedTrades == {k \in 1..Len(trades) : trades[k].exit_price # None}
Winners == {k \in ClosedTrades : trades[k].profit_loss > 0}
Losers == {k \in ClosedTrades : trades[k].profit_loss < 0}
ConstantCurve ==
    \A a, b \in 1..Len(equity_curve) : equity_curve[a] = equity_curve[b]

\* C22 (as claimed): constructing a BacktestResults never raises, whatever the
\* trade list, the equity curve and the initial capital (zero included), and
\* the metrics take their neutral values in the degenerate cases: win rate,
\* average win and average loss 0 without closed, winning or losing trades,
\* profit factor 1 with wins and no losses and 0 with neither, and Sharpe,
\* Sortino and Calmar 0 for a curve that is empty, single-point or constant.
C22_NeverRaises ==
    /\ pc # "raised"
    /\ error = NoError
    /\ pc = "constructed" =>
          LET r == results[1]
          IN  /\ ClosedTrades = {} => r.win_rate_pct = FracZero
              /\ Winners = {} => r.avg_win = FracZero
              /\ Losers = {} => r.avg_loss = FracZero
              /\ (Losers = {} /\ Winners # {}) => r.profit_factor = Frac(1, 1)
              /\ (Losers = {} /\ Winners = {}) => r.profit_factor = FracZero
              /\ ConstantCurve =>
                    /\ r.sharpe_ratio = ZeroRatio
                    /\ r.sortino_ratio = ZeroRatio
                    /\ r.calmar_ratio = ZeroCalmar

\* the part of C22 the code keeps: the neutral values of a result that was
\* constructed
C22_NeutralValues ==
    pc = "constructed" =>
        LET r == results[1]
        IN  /\ ClosedTrades = {} => r.win_rate_pct = FracZero
            /\ Winners = {} => r.avg_win = FracZero
            /\ Losers = {} => r.avg_loss = FracZero
            /\ (Losers = {} /\ Winners # {}) => r.profit_factor = Frac(1, 1)
            /\ (Losers = {} /\ Winners = {}) => r.profit_factor = FracZero
            /\ ConstantCurve =>
                  /\ r.sharpe_ratio = ZeroRatio
                  /\ r.sortino_ratio = ZeroRatio
                  /\ r.calmar_ratio = ZeroCalmar

\* C23: the signals the SMA crossover returns for a strictly increasing close
\* series with 1 <= fast_period < slow_period are as many as the bars, Hold on
\* every bar before the slow window is full, and never Sell.
StrictlyIncreasing ==
    \A b \in 1..(Len(data_close) - 1) : data_close[b] < data_close[b + 1]

C23_UptrendNeverSells ==
    (/\ pc = "generated"
     /\ strategy.family = "SMA"
     /\ 1 <= strategy.fast_period
     /\ strategy.fast_period < strategy.slow_period
     /\ StrictlyIncreasing) =>
        /\ Len(signals) = Len(data_close)
        /\ \A b \in 1..Len(signals) :
              /\ b < strategy.slow_period => signals[b] = HOLD
              /\ signals[b] # SELL

\* signals generated for an up-trend that is longer than the slow window
C23_Witness ==
    /\ pc = "generated"
    /\ strategy.family = "SMA"
    /\ strategy.fast_period < strategy.slow_period
    /\ StrictlyIncreasing
    /\ Len(data_close) > strategy.slow_period
    /\ signals[Len(signals)] = BUY

\* the lookback window of bar b holds period price changes, none of them a
\* loss
NoLossWindow(b) ==
    /\ b > strategy.period
    /\ b <= Len(data_close)
    /\ \A c \in (b - strategy.period + 1)..b : data_close[c] >= data_close[c - 1]

\* C24 (as claimed): in the signals the RSI strategy returns, every bar with
\* a full lookback window without a losing bar, unchanged prices included, is
\* Sell when overbought < 100.
C24_NoLossIsSell ==
    (pc = "generated" /\ strategy.family = "RSI" /\ strategy.overbought < 100) =>
        \A b \in 1..Len(data_close) : NoLossWindow(b) => signals[b] = SELL

\* the part of C24 the code keeps: a window with a gain and without a loss
C24_GainOverNoLoss ==
    (pc = "generated" /\ strategy.family = "RSI" /\ strategy.overbought < 100) =>
        \A b \in 1..Len(data_close) :
           (/\ NoLossWindow(b)
            /\ \E c \in (b - strategy.period + 1)..b :
                  data_close[c] > data_close[c - 1]) => signals[b] = SELL

\* C25 (as claimed): once cancellation is requested, the optimizer runs no
\* further combination, and it returns the best result of the combinations
\* evaluated before the request.
C25_StopsWhenCancelled ==
    [][cancel_requested => evaluated' = evaluated]_vars

\* a step of the simulation that opens a position
Opens == position' # position /\ position' # NoPosition /\ position'[1].exit_date = None
\* a step of the simulation that closes one
Closes == Len(trades') > Len(trades)

\* C26: every trade of the trade list is closed, so the only trade that can
\* be open is the one held in position; no step of the simulation both closes
\* and opens a trade; and the trades are in chronological order without
\* overlap: each trade, and the open position, is entered strictly after the
\* trade before it was exited, and no trade is exited before it was entered.
C26_OnePositionAtATime ==
    /\ [](/\ \A t \in 1..Len(trades) :
                /\ trades[t].exit_date # None
                /\ trades[t].entry_date <= trades[t].exit_date
          /\ \A t \in 1..(Len(trades) - 1) :
                trades[t + 1].entry_date > trades[t].exit_date
          /\ (pc = "loop" /\ Holding /\ trades # <<>>) =>
                position[1].entry_date > trades[Len(trades)].exit_date)
    /\ [][~(Opens /\ Closes)]_vars

\* a returned simulation with two trades
C26_Witness ==
    /\ pc = "done"
    /\ Len(trades) = 2

\* C27 (as claimed): with positive initial capital, non-negative close prices
\* and a commission rate in [0, 1), cash is never negative in any state of the
\* simulation.
C27_CashNeverNegative ==
    (/\ initial_capital > 0
     /\ \A b \in 1..Len(data_close) : data_close[b] >= 0
     /\ 0 <= RateNum /\ RateNum < RateDen) => cash >= 0

\* C28: in every state of the scan, best_params and best_results are unset
\* together, with best_metric still at its initial infinity; once set,
\* best_results is the result of the backtest that ran with best_params, one
\* of the combinations evaluated so far, and best_metric is the value of the
\* metric field of best_results (0 when the results have no such field).
C28_BestIsOneCombination ==
    /\ (best_params = <<>>) <=> (best_results = <<>>)
    /\ best_params = <<>> =>
          best_metric = (IF metric = "max_drawdown_pct" THEN Inf ELSE 0 - Inf)
    /\ best_params # <<>> =>
          /\ best_results[1].params = best_params[1]
          /\ \E j \in 1..Len(evaluated) :
                /\ ~evaluated[j].raised
                /\ evaluated[j].results = best_results
                /\ evaluated[j].params = best_params[1]
          /\ metric = "sharpe_ratio" => best_metric = best_results[1].sharpe_ratio
          /\ metric = "max_drawdown_pct" =>
                best_metric = best_results[1].max_drawdown_pct
          /\ metric \notin {"sharpe_ratio", "max_drawdown_pct"} => best_metric = 0

\* the scan is past a best combination: a later one raised or was not better
C28_Witness ==
    /\ pc = "opt"
    /\ best_params # <<>>
    /\ Len(evaluated) >= 2
    /\ evaluated[Len(evaluated)].params # best_params[1]
    /\ \E j \in 1..Len(evaluated) : evaluated[j].raised

\* C29 (as claimed): when compare_strategies returns for a list of different
\* strategy instances, the mapping has one entry for each of them, and the
\* entry of each is what its own backtest returned (null if it raised).
C29_OneEntryPerStrategy ==
    (/\ pc = "cmp_returned"
     /\ \A j, l \in 1..Len(strategies) : j # l => strategies[j] # strategies[l]) =>
        /\ Cardinality(DOMAIN comparison) = Len(strategies)
        /\ \A j \in 1..Len(strategies) :
              /\ RSIName(strategies[j]) \in DOMAIN comparison
              /\ comparison[RSIName(strategies[j])] = evaluated[j].results

\* C30: when optimize_strategy returns for a metric name that is not a field
\* of the results, no error was raised, and if any combination was evaluated
\* successfully the first of them in scan order is returned as best, with
\* metric value 0.
C30_UnknownMetricFirstWins ==
    (pc = "opt_returned" /\ metric \notin {"sharpe_ratio", "max_drawdown_pct"}) =>
        /\ error = NoError
        /\ Len(evaluated) = GridSize(param_values)
        /\ Succeeded = {} => (best_params = <<>> /\ best_results = <<>>)
        /\ Succeeded # {} =>
              \E j \in Succeeded :
                  /\ \A l \in Succeeded : j <= l
                  /\ best_params = <<evaluated[j].params>>
                  /\ best_results = evaluated[j].results
                  /\ best_metric = 0

\* an unknown metric, a first combination that raised, and two later ones
\* that succeeded with different results
C30_Witness ==
    /\ pc = "opt_returned"
    /\ metric = "no_such_field"
    /\ Len(evaluated) >= 3
    /\ evaluated[1].raised
    /\ \E j, l \in Succeeded :
          /\ j < l
          /\ evaluated[j].results[1].sharpe_ratio
                # evaluated[l].results[1].sharpe_ratio
          /\ best_results = evaluated[j].results

====
